---- MODULE Spec2Model ----
(***************************************************************************)
(* Model of middlewared/plugins/backup.py: BackupService.sync (the job     *)
(* dispatcher), BackupS3Service.sync (the rclone tree sync with its        *)
(* check_progress scanner) and BackupS3Service.put / get (the chunked      *)
(* multipart transfer).                                                    *)
(***************************************************************************)
EXTENDS Integers, Sequences, FiniteSets, TLC

(***************************************************************************)
(* Bounds of the model.                                                    *)
(***************************************************************************)
\* number of backup.sync calls submitted to the job queue
MaxJobs == 2
\* number of inputs from outside: backup.sync calls plus the lines the
\* rclone processes write to stderr
MaxInputs == 3
\* CHUNK_SIZE of backup.py:12 (5 MiB), scaled down to a few bytes
CHUNK_SIZE == 2
\* longest stderr line (in tokens) given to one check_progress iteration
MaxLineLen == 3

(***************************************************************************)
(* The datastore: tasks.cloudsync and system.cloudcredentials records.     *)
(* Task 1 and 2 use the AMAZON credential 1, task 3 the credential 2 of an *)
(* unsupported provider, task 4 references a credential that was deleted;  *)
(* no task has id 5.                                                       *)
(***************************************************************************)
system_cloudcredentials ==
    1 :> [id |-> 1, provider |-> "AMAZON", access_key |-> "ak1", secret_key |-> "sk1"]
 @@ 2 :> [id |-> 2, provider |-> "BACKBLAZE", access_key |-> "ak2", secret_key |-> "sk2"]

tasks_cloudsync ==
    1 :> [id |-> 1, credential |-> 1, path |-> "/mnt/a", bucket |-> "b1", region |-> "r1"]
 @@ 2 :> [id |-> 2, credential |-> 1, path |-> "/mnt/b", bucket |-> "b2", region |-> ""]
 @@ 3 :> [id |-> 3, credential |-> 2, path |-> "/mnt/c", bucket |-> "b3", region |-> ""]
 @@ 4 :> [id |-> 4, credential |-> 9, path |-> "/mnt/d", bucket |-> "b4", region |-> ""]

\* the ids a caller may pass to backup.sync
RequestIds == (DOMAIN tasks_cloudsync) \cup {5}

\* datastore.query(table, [('id', '=', id)], {'get': True}): the record, or a
\* falsy value when no record has that id.  The result is a sequence of at
\* most one record; <<>> is the falsy value.
datastore_query(table, id) ==
    IF id \in DOMAIN table THEN << table[id] >> ELSE << >>

(***************************************************************************)
(* @job(lock=lambda args: 'backup:{}'.format(args[-1]))                    *)
(***************************************************************************)
NoLock == << >>

LockKeyNone(args) == NoLock

LockKeyGlobal(args) == << "backup" >>

LockKey(args) == << "backup", args[Len(args)] >>

(***************************************************************************)
(* BackupService.sync(job, id), lines 20-35, as the calls it makes and how *)
(* it ends: raised is the exception (<<>> when none), delegate says        *)
(* whether backup.s3.sync is called.                                       *)
(***************************************************************************)
QueryTask(id) == << "datastore.query", "tasks.cloudsync", id >>
QueryCred(id) == << "datastore.query", "system.cloudcredentials", id >>
CallS3Sync(id) == << "backup.s3.sync", id >>

NoError == << >>

\* a sync that looks the credential up before it tests the task
BackupService_sync_LookupFirst(id) ==
    LET backup == datastore_query(tasks_cloudsync, id)
        cid == IF backup = << >> THEN id ELSE backup[1].credential
        credential == datastore_query(system_cloudcredentials, cid)
    IN  IF backup = << >>
        THEN [calls |-> << QueryTask(id), QueryCred(cid) >>,
              raised |-> << "ValueError", "Unknown id" >>, delegate |-> FALSE]
        ELSE IF credential = << >>
        THEN [calls |-> << QueryTask(id), QueryCred(cid) >>,
              raised |-> << "ValueError", "Backup credential not found." >>,
              delegate |-> FALSE]
        ELSE IF credential[1].provider = "AMAZON"
        THEN [calls |-> << QueryTask(id), QueryCred(cid), CallS3Sync(id) >>,
              raised |-> NoError, delegate |-> TRUE]
        ELSE [calls |-> << QueryTask(id), QueryCred(cid) >>,
              raised |-> << "NotImplementedError", "Unsupported provider: ",
                            credential[1].provider >>,
              delegate |-> FALSE]

\* a sync that hands every provider to backup.s3.sync
BackupService_sync_AnyProvider(id) ==
    LET backup == datastore_query(tasks_cloudsync, id)
        cid == IF backup = << >> THEN id ELSE backup[1].credential
        credential == datastore_query(system_cloudcredentials, cid)
    IN  IF backup = << >>
        THEN [calls |-> << QueryTask(id) >>,
              raised |-> << "ValueError", "Unknown id" >>, delegate |-> FALSE]
        ELSE IF credential = << >>
        THEN [calls |-> << QueryTask(id), QueryCred(cid) >>,
              raised |-> << "ValueError", "Backup credential not found." >>,
              delegate |-> FALSE]
        ELSE [calls |-> << QueryTask(id), QueryCred(cid), CallS3Sync(id) >>,
              raised |-> NoError, delegate |-> TRUE]

BackupService_sync(id) ==
    LET backup == datastore_query(tasks_cloudsync, id)
    IN  IF backup = << >>
        THEN [calls |-> << QueryTask(id) >>,
              raised |-> << "ValueError", "Unknown id" >>, delegate |-> FALSE]
        ELSE
        LET cid == backup[1].credential
            credential == datastore_query(system_cloudcredentials, cid)
        IN  IF credential = << >>
            THEN [calls |-> << QueryTask(id), QueryCred(cid) >>,
                  raised |-> << "ValueError", "Backup credential not found." >>,
                  delegate |-> FALSE]
            ELSE IF credential[1].provider = "AMAZON"
            THEN [calls |-> << QueryTask(id), QueryCred(cid), CallS3Sync(id) >>,
                  raised |-> NoError, delegate |-> TRUE]
            ELSE [calls |-> << QueryTask(id), QueryCred(cid) >>,
                  raised |-> << "NotImplementedError", "Unsupported provider: ",
                                credential[1].provider >>,
                  delegate |-> FALSE]

(***************************************************************************)
(* Lines of the rclone error stream.  A line is a sequence of tokens:      *)
(* "Transferred:" is the literal the pattern looks for, "7" a digit, "%" a *)
(* character that is neither digit nor whitespace, " " whitespace (the     *)
(* line's newline included).                                               *)
(***************************************************************************)
Tokens == { "Transferred:", "7", "%", " " }

RECURSIVE SeqsUpTo(_, _)
SeqsUpTo(S, n) ==
    IF n = 0 THEN { << >> }
    ELSE LET shorter == SeqsUpTo(S, n - 1)
         IN  shorter \cup { Append(s, x) : s \in shorter, x \in S }

\* every line check_progress can be given (readline never returns an empty
\* line before end of file)
AllLines == SeqsUpTo(Tokens, MaxLineLen) \ { << >> }

\* what the modelled rclone writes: the status lines "Transferred: 7%\n" and
\* "Transferred: %\n" and the byte count "Transferred: 7\n"
ProcLines == { << "Transferred:", " ", "7", "%", " " >>,
               << "Transferred:", " ", "%", " " >>,
               << "Transferred:", " ", "7", " " >> }

\* index of the first "Transferred:" of the line, 0 when there is none
FirstKeyword(line) ==
    LET at == { i \in 1..Len(line) : line[i] = "Transferred:" }
    IN  IF at = {} THEN 0 ELSE CHOOSE i \in at : \A k \in at : i <= k

\* RE_TRANSF.search(line) for r'Transferred:\s*?(.+)$' with re.S: the lazy
\* \s*? takes nothing, (.+) takes the whole non-empty rest of the line.
\* The result is <<group(1)>>, or <<>> when the pattern does not match.
RE_TRANSF_search(line) ==
    LET i == FirstKeyword(line)
    IN  IF i = 0 \/ i = Len(line) THEN << >>
        ELSE << SubSeq(line, i + 1, Len(line)) >>

\* str.strip(): leading and trailing whitespace removed
RECURSIVE lstrip(_)
lstrip(s) == IF s # << >> /\ Head(s) = " " THEN lstrip(Tail(s)) ELSE s

RECURSIVE rstrip(_)
rstrip(s) ==
    IF s # << >> /\ s[Len(s)] = " " THEN rstrip(SubSeq(s, 1, Len(s) - 1)) ELSE s

strip(s) == rstrip(lstrip(s))

\* str.isdigit(): at least one character and every character a digit
isdigit(s) == s # << >> /\ \A i \in 1..Len(s) : s[i] = "7"

\* line 113: job.set_progress(None, transferred)
set_progress(message) == [percent |-> "None", message |-> message]

\* One iteration of check_progress on a non-empty line (lines 109-113).
\* The line is bytes (Popen without universal_newlines; line 107 compares it
\* with b'') and RE_TRANSF is compiled from a str pattern: where bytes is
\* str the pattern is applied, where bytes and str differ re raises
\* TypeError and the scanner dies.  publish is <<progress update>> or <<>>.
check_progress_line(bytesAreStr, line) ==
    IF ~bytesAreStr
    THEN [raised |-> TRUE, publish |-> << >>]
    ELSE LET reg == RE_TRANSF_search(line)
         IN  IF reg = << >>
             THEN [raised |-> FALSE, publish |-> << >>]
             ELSE LET transferred == strip(reg[1])
                  IN  IF ~isdigit(transferred)
                      THEN [raised |-> FALSE,
                            publish |-> << set_progress(transferred) >>]
                      ELSE [raised |-> FALSE, publish |-> << >>]

\* the outcome of one iteration of check_progress for each line rclone
\* writes, computed once
check_progress_of ==
    [ b \in BOOLEAN |-> [ line \in ProcLines |-> check_progress_line(b, line) ] ]

(***************************************************************************)
(* How BackupS3Service.sync ends once communicate() returned, lines        *)
(* 121-124.                                                                *)
(***************************************************************************)
\* a sync that reports success whatever the exit code
sync_result_IgnoreCode(returncode, stderr) ==
    [raised |-> NoError, result |-> TRUE]

sync_result(returncode, stderr) ==
    IF returncode # 0
    THEN [raised |-> << "ValueError", "rclone failed: ", stderr >>, result |-> FALSE]
    ELSE [raised |-> NoError, result |-> TRUE]

VARIABLES
    jobs,         \* the job queue: one record per backup.sync call
    files,        \* the temporary files that exist: name -> mode and content
    bytesIsStr,   \* whether bytes is str for the interpreter running the code
    xfer,         \* the arguments of put and get: the task and the source stream
    put,          \* the locals of BackupS3Service.put and where it stands
    get,          \* the locals of BackupS3Service.get and where it stands
    s3,           \* the object store: the multipart session and the object
    fault,        \* whether the store or the network failed on its own
    scan          \* the last check_progress iteration: the line and its outcome

syncVars == << jobs, files >>

xferVars == << xfer, put, get, s3, fault >>

vars == << jobs, files, bytesIsStr, xfer, put, get, s3, fault, scan >>

NewJob(id) ==
    [ id |-> id,
      state |-> "WAITING",        \* WAITING, RUNNING, SUCCESS, FAILED
      pc |-> "queued",
      calls |-> << >>,            \* the calls BackupService.sync made
      error |-> NoError,
      result |-> FALSE,
      conf |-> 0,                 \* name of the temporary file, 0 before it exists
      proc |-> "none",            \* none, running, exited
      returncode |-> 0,
      pipe |-> << >>,             \* stderr lines written and not yet read
      emitted |-> << >>,          \* every line the process wrote to stderr
      captured |-> << >>,         \* what communicate() has read of stderr
      scanner |-> "none",         \* none, running, ended, crashed
      published |-> << >> ]       \* the job.set_progress(None, message) calls

JobIds == DOMAIN jobs

Running(j) == jobs[j].state = "RUNNING"

At(j, pc) == Running(j) /\ jobs[j].pc = pc

\* the lock key of job j
JobLock(j) == LockKey(<< jobs[j].id >>)

\* the job queue runs a job when it asks for no lock or no running job holds
\* its lock
CanRun(j) ==
    \/ JobLock(j) = NoLock
    \/ \A k \in JobIds : Running(k) => JobLock(k) # JobLock(j)

Backup(j) == tasks_cloudsync[jobs[j].id]

Credential(j) == system_cloudcredentials[Backup(j).credential]

FileNames == 1..MaxJobs

\* a fixed name for the configuration file, whatever files exist
mkstemp_Fixed(existing) == 1

\* the name tempfile gives a new file: one that no existing file has (the
\* random names are told apart only by being equal or not, so the first
\* free one stands for all of them)
mkstemp(existing) ==
    CHOOSE n \in FileNames \ existing : \A m \in FileNames \ existing : n <= m

RECURSIVE SumEmitted(_)
SumEmitted(n) == IF n = 0 THEN 0 ELSE Len(jobs[n].emitted) + SumEmitted(n - 1)

Inputs == Len(jobs) + SumEmitted(Len(jobs))

Without(f, n) == [ m \in (DOMAIN f) \ {n} |-> f[m] ]

(***************************************************************************)
(* The job queue.                                                          *)
(***************************************************************************)
\* a caller calls backup.sync(id): the job is queued
Submit(id) ==
    /\ Len(jobs) < MaxJobs
    /\ Inputs < MaxInputs
    /\ jobs' = Append(jobs, NewJob(id))
    /\ UNCHANGED << files, bytesIsStr, xferVars, scan >>

\* the queue starts a waiting job whose lock is free
JobStart(j) ==
    /\ jobs[j].state = "WAITING"
    /\ CanRun(j)
    /\ jobs' = [jobs EXCEPT ![j].state = "RUNNING", ![j].pc = "sync"]
    /\ UNCHANGED << files, bytesIsStr, xferVars, scan >>

(***************************************************************************)
(* BackupService.sync, lines 20-35                                         *)
(***************************************************************************)
Dispatch(j) ==
    /\ At(j, "sync")
    /\ LET r == BackupService_sync(jobs[j].id)
       IN  jobs' = [jobs EXCEPT
                ![j].calls = r.calls,
                ![j].error = r.raised,
                ![j].state = IF r.delegate THEN "RUNNING" ELSE "FAILED",
                ![j].pc = IF r.delegate THEN "tmpfile" ELSE "end"]
    /\ UNCHANGED << files, bytesIsStr, xferVars, scan >>

(***************************************************************************)
(* BackupS3Service.sync, lines 74-124                                      *)
(***************************************************************************)
\* a temporary file created the way open() creates one under the usual
\* umask: readable by group and others until chmod
TmpFile_Readable(j) ==
    /\ At(j, "tmpfile")
    /\ LET n == mkstemp(DOMAIN files)
       IN  /\ files' = (n :> [mode |-> "0644", content |-> << >>]) @@ files
           /\ jobs' = [jobs EXCEPT ![j].conf = n, ![j].pc = "chmod"]
    /\ UNCHANGED << bytesIsStr, xferVars, scan >>

\* line 76: tempfile.NamedTemporaryFile() creates a file under a name no
\* existing file has, readable and writable by its owner only
TmpFile(j) ==
    /\ At(j, "tmpfile")
    /\ LET n == mkstemp(DOMAIN files)
       IN  /\ files' = (n :> [mode |-> "0600", content |-> << >>]) @@ files
           /\ jobs' = [jobs EXCEPT ![j].conf = n, ![j].pc = "chmod"]
    /\ UNCHANGED << bytesIsStr, xferVars, scan >>

\* line 78: os.chmod(f.name, 0o600)
Chmod(j) ==
    /\ At(j, "chmod")
    /\ files' = [files EXCEPT ![jobs[j].conf].mode = "0600"]
    /\ jobs' = [jobs EXCEPT ![j].pc = "write"]
    /\ UNCHANGED << bytesIsStr, xferVars, scan >>

\* lines 80-92: the rclone configuration is written and flushed
WriteConfig(j) ==
    /\ At(j, "write")
    /\ files' = [files EXCEPT ![jobs[j].conf].content =
                    << Credential(j).access_key, Credential(j).secret_key,
                       Backup(j).region >>]
    /\ jobs' = [jobs EXCEPT ![j].pc = "popen"]
    /\ UNCHANGED << bytesIsStr, xferVars, scan >>

\* a sync that ends and leaves its temporary file behind
Leave_KeepFile(j, raised, result) ==
    /\ files' = files
    /\ jobs' = [jobs EXCEPT
            ![j].error = raised,
            ![j].result = result,
            ![j].state = IF raised = NoError THEN "SUCCESS" ELSE "FAILED",
            ![j].pc = "end"]

\* leaving the with block of line 76 deletes the temporary file
Leave(j, raised, result) ==
    /\ files' = Without(files, jobs[j].conf)
    /\ jobs' = [jobs EXCEPT
            ![j].error = raised,
            ![j].result = result,
            ![j].state = IF raised = NoError THEN "SUCCESS" ELSE "FAILED",
            ![j].pc = "end"]

\* a sync that starts rclone and spawns no scanner
Popen_NoSpawn(j) ==
    /\ At(j, "popen")
    /\ jobs' = [jobs EXCEPT ![j].proc = "running", ![j].pc = "communicate"]
    /\ UNCHANGED << files, bytesIsStr, xferVars, scan >>

\* lines 115-120: subprocess.Popen starts rclone and gevent.spawn starts
\* check_progress, which first runs when communicate() yields
Popen(j) ==
    /\ At(j, "popen")
    /\ jobs' = [jobs EXCEPT ![j].proc = "running", ![j].scanner = "running",
                            ![j].pc = "communicate"]
    /\ UNCHANGED << files, bytesIsStr, xferVars, scan >>

\* lines 115-119: subprocess.Popen cannot start rclone and raises OSError
PopenFail(j) ==
    /\ At(j, "popen")
    /\ Leave(j, << "OSError" >>, FALSE)
    /\ UNCHANGED << bytesIsStr, xferVars, scan >>

\* rclone writes a line to its stderr
ProcEmit(j, line) ==
    /\ jobs[j].proc = "running"
    /\ Inputs < MaxInputs
    /\ jobs' = [jobs EXCEPT ![j].pipe = Append(@, line),
                            ![j].emitted = Append(@, line)]
    /\ UNCHANGED << files, bytesIsStr, xferVars, scan >>

\* rclone exits with a return code, which closes its end of the pipe
ProcExit(j, code) ==
    /\ jobs[j].proc = "running"
    /\ jobs' = [jobs EXCEPT ![j].proc = "exited", ![j].returncode = code]
    /\ UNCHANGED << files, bytesIsStr, xferVars, scan >>

\* a scanner that takes the newest line of the pipe instead of the oldest
ScanLine_Newest(j) ==
    /\ jobs[j].scanner = "running"
    /\ jobs[j].pipe # << >>
    /\ LET pipe == jobs[j].pipe
           r == check_progress_of[bytesIsStr][pipe[Len(pipe)]]
       IN  jobs' = [jobs EXCEPT
                ![j].pipe = SubSeq(pipe, 1, Len(pipe) - 1),
                ![j].scanner = IF r.raised THEN "crashed" ELSE "running",
                ![j].published = @ \o r.publish]
    /\ UNCHANGED << files, bytesIsStr, xferVars, scan >>

\* lines 106-113: check_progress reads a line and handles it
ScanLine(j) ==
    /\ jobs[j].scanner = "running"
    /\ jobs[j].pipe # << >>
    /\ LET r == check_progress_of[bytesIsStr][Head(jobs[j].pipe)]
       IN  jobs' = [jobs EXCEPT
                ![j].pipe = Tail(@),
                ![j].scanner = IF r.raised THEN "crashed" ELSE "running",
                ![j].published = @ \o r.publish]
    /\ UNCHANGED << files, bytesIsStr, xferVars, scan >>

\* lines 106-108: readline returns b'' at end of file and the scanner ends
ScanEOF(j) ==
    /\ jobs[j].scanner = "running"
    /\ jobs[j].pipe = << >>
    /\ jobs[j].proc = "exited"
    /\ jobs' = [jobs EXCEPT ![j].scanner = "ended"]
    /\ UNCHANGED << files, bytesIsStr, xferVars, scan >>

\* line 121: communicate() reads what is in the stderr pipe
CommRead(j) ==
    /\ At(j, "communicate")
    /\ jobs[j].pipe # << >>
    /\ jobs' = [jobs EXCEPT ![j].pipe = Tail(@),
                            ![j].captured = Append(@, Head(jobs[j].pipe))]
    /\ UNCHANGED << files, bytesIsStr, xferVars, scan >>

\* lines 121-124: communicate() returns at end of file once rclone exited;
\* the exit code decides how the sync ends
CommDone(j) ==
    /\ At(j, "communicate")
    /\ jobs[j].pipe = << >>
    /\ jobs[j].proc = "exited"
    /\ LET r == sync_result(jobs[j].returncode, jobs[j].captured)
       IN  Leave(j, r.raised, r.result)
    /\ UNCHANGED << bytesIsStr, xferVars, scan >>

\* no job is queued and no temporary file exists
SyncIdle ==
    /\ jobs = << >>
    /\ files = << >>

\* neither put nor get has been called
XferIdle ==
    /\ xfer = [task |-> 0, src |-> << >>]
    /\ put = [pc |-> "idle", client |-> << >>, rpos |-> 0, idx |-> 1,
              parts |-> << >>, eof |-> FALSE, error |-> NoError]
    /\ get = [pc |-> "idle", client |-> << >>, gpos |-> 0, dst |-> << >>,
              error |-> NoError]
    /\ s3 = [session |-> "none", uploads |-> << >>, completes |-> << >>,
             object |-> << >>]
    /\ fault = FALSE

\* check_progress has been given no line
ScanIdle == scan = [line |-> << >>, raised |-> FALSE, publish |-> << >>, pc |-> "idle"]

Init ==
    /\ SyncIdle
    /\ XferIdle
    /\ ScanIdle
    /\ bytesIsStr \in BOOLEAN

Next ==
    \/ \E id \in RequestIds : Submit(id)
    \/ \E j \in JobIds : JobStart(j)
    \/ \E j \in JobIds : Dispatch(j)
    \/ \E j \in JobIds : TmpFile(j)
    \/ \E j \in JobIds : Chmod(j)
    \/ \E j \in JobIds : WriteConfig(j)
    \/ \E j \in JobIds : Popen(j)
    \/ \E j \in JobIds : PopenFail(j)
    \/ \E j \in JobIds, line \in ProcLines : ProcEmit(j, line)
    \/ \E j \in JobIds, code \in {0, 1} : ProcExit(j, code)
    \/ \E j \in JobIds : ScanLine(j)
    \/ \E j \in JobIds : ScanEOF(j)
    \/ \E j \in JobIds : CommRead(j)
    \/ \E j \in JobIds : CommDone(j)

Spec == Init /\ [][Next]_vars


(***************************************************************************)
(* Properties of the job queue and the dispatcher.                         *)
(***************************************************************************)
Dispatched(j) == jobs[j].pc \notin { "queued", "sync" }

UnknownId(j) == jobs[j].id \notin DOMAIN tasks_cloudsync

UnsupportedProvider(j) ==
    /\ ~UnknownId(j)
    /\ Backup(j).credential \in DOMAIN system_cloudcredentials
    /\ Credential(j).provider # "AMAZON"

\* no temporary file, no process, no scanner and no backup.s3.sync call
NoSideEffect(j) ==
    /\ jobs[j].conf = 0
    /\ jobs[j].proc = "none"
    /\ jobs[j].scanner = "none"
    /\ \A i \in 1..Len(jobs[j].calls) : jobs[j].calls[i][1] = "datastore.query"

\* C1: at most one sync for a given task id is running at any time; a second
\* sync for the same id waits in the queue and never runs beside the first.
C1_MutualExclusion ==
    \A i, k \in JobIds :
        (i # k /\ Running(i) /\ Running(k)) => jobs[i].id # jobs[k].id

C1_Witness ==
    \E i, k \in JobIds :
        /\ jobs[i].id = jobs[k].id
        /\ At(i, "communicate")
        /\ jobs[k].state = "WAITING"

\* C5: a sync with an unknown task id fails with "Unknown id" having made
\* the task query only: no credential lookup, no delegation, no temporary
\* file, no process.
C5_UnknownIdFailsFirst ==
    \A j \in JobIds : UnknownId(j) =>
        /\ NoSideEffect(j)
        /\ \A i \in 1..Len(jobs[j].calls) : jobs[j].calls[i] = QueryTask(jobs[j].id)
        /\ jobs[j].pc \in { "queued", "sync", "end" }
        /\ Dispatched(j) =>
            /\ jobs[j].state = "FAILED"
            /\ jobs[j].error = << "ValueError", "Unknown id" >>
            /\ jobs[j].calls = << QueryTask(jobs[j].id) >>

C5_Witness ==
    \E j \in JobIds : UnknownId(j) /\ Dispatched(j) /\ jobs[j].state = "FAILED"

\* C6: a sync whose credential has a provider other than the supported one
\* fails with an error naming the provider, and creates no temporary file,
\* starts no process and calls no object store.
C6_UnsupportedProviderFails ==
    \A j \in JobIds : UnsupportedProvider(j) =>
        /\ NoSideEffect(j)
        /\ jobs[j].pc \in { "queued", "sync", "end" }
        /\ Dispatched(j) =>
            /\ jobs[j].state = "FAILED"
            /\ jobs[j].error = << "NotImplementedError", "Unsupported provider: ",
                                  Credential(j).provider >>

C6_Witness ==
    \E j \in JobIds :
        UnsupportedProvider(j) /\ Dispatched(j) /\ jobs[j].state = "FAILED"

\* C7: the tree sync returns success exactly when rclone exited with code
\* zero; on another exit code it fails with "rclone failed" carrying the
\* error-stream content communicate() captured.
C7_ExitCodeDecides ==
    \A j \in JobIds :
        /\ (jobs[j].result \/ jobs[j].state = "SUCCESS") =>
                (jobs[j].proc = "exited" /\ jobs[j].returncode = 0)
        /\ (jobs[j].pc = "end" /\ jobs[j].proc = "exited") =>
            /\ jobs[j].returncode = 0 =>
                (jobs[j].result /\ jobs[j].state = "SUCCESS" /\ jobs[j].error = NoError)
            /\ jobs[j].returncode # 0 =>
                /\ jobs[j].state = "FAILED"
                /\ jobs[j].error = << "ValueError", "rclone failed: ", jobs[j].captured >>

C7_Witness ==
    \E i, k \in JobIds :
        /\ jobs[i].pc = "end" /\ jobs[i].proc = "exited"
        /\ jobs[i].returncode # 0 /\ jobs[i].captured # << >>
        /\ jobs[k].pc = "end" /\ jobs[k].proc = "exited" /\ jobs[k].returncode = 0

\* C10: the lock does not serialize across task ids: while a sync for one id
\* runs, a waiting sync for another id that no running job has can start,
\* and two syncs of different ids run at the same time.
C10_NoCrossSerialization ==
    \A a, b \in JobIds :
        ( /\ Running(a)
          /\ jobs[b].state = "WAITING"
          /\ \A k \in JobIds : Running(k) => jobs[k].id # jobs[b].id )
        => ENABLED JobStart(b)

C10_Witness ==
    \E a, b \in JobIds :
        /\ jobs[a].id # jobs[b].id
        /\ At(a, "communicate") /\ jobs[a].proc = "running"
        /\ At(b, "communicate") /\ jobs[b].proc = "running"


(***************************************************************************)
(* Properties of the tree sync: the scanner, the exit-wait and the         *)
(* temporary configuration file.                                           *)
(***************************************************************************)
\* the line holds "Transferred:" followed by at least one character
HasTransferred(line) ==
    \E i \in 1..(Len(line) - 1) : line[i] = "Transferred:"

\* what follows the first "Transferred:" of the line, without the whitespace
\* around it
TransferredValue(line) ==
    LET i == CHOOSE i \in 1..Len(line) :
                /\ line[i] = "Transferred:"
                /\ \A k \in 1..(i - 1) : line[k] # "Transferred:"
    IN  strip(SubSeq(line, i + 1, Len(line)))

PurelyNumeric(value) ==
    Len(value) > 0 /\ { value[i] : i \in 1..Len(value) } = { "7" }

RECURSIVE ExpectedUpdates(_)
ExpectedUpdates(lines) ==
    IF lines = << >> THEN << >>
    ELSE LET line == Head(lines)
             update == IF HasTransferred(line) /\ ~PurelyNumeric(TransferredValue(line))
                       THEN << [percent |-> "None",
                                message |-> TransferredValue(line)] >>
                       ELSE << >>
         IN  update \o ExpectedUpdates(Tail(lines))

\* C12: every line rclone writes to stderr is read by the scanner, whatever
\* the interleaving with communicate(): once the sync has ended and the
\* scanner has reached end of file, every emitted line with a non-numeric
\* "Transferred:" value has been published.
C12_EveryLineScanned ==
    \A j \in JobIds :
        (jobs[j].pc = "end" /\ jobs[j].proc = "exited" /\ jobs[j].scanner = "ended")
        => jobs[j].published = ExpectedUpdates(jobs[j].emitted)

\* p can be had from q by leaving elements out
RECURSIVE IsSubsequence(_, _)
IsSubsequence(p, q) ==
    IF p = << >> THEN TRUE
    ELSE IF q = << >> THEN FALSE
    ELSE IF Head(p) = Head(q) THEN IsSubsequence(Tail(p), Tail(q))
    ELSE IsSubsequence(p, Tail(q))

\* C13: progress updates are published in the line order of the stderr
\* stream: the published updates are, in their order, updates of emitted
\* lines in the order rclone wrote them.
C13_PublishedInLineOrder ==
    \A j \in JobIds :
        IsSubsequence(jobs[j].published, ExpectedUpdates(jobs[j].emitted))

\* two different updates of one process have been published
C13_Witness ==
    \E j \in JobIds :
        /\ Len(jobs[j].published) = 2
        /\ jobs[j].published[1] # jobs[j].published[2]

\* job j has created its temporary file and not yet left the with block
HoldsFile(j) ==
    jobs[j].pc \in { "chmod", "write", "popen", "communicate" }

\* C14: the temporary configuration file is readable and writable by its
\* owner only in every state from its creation to its deletion, and the
\* keys are written to it only after chmod.
C14_OwnerOnlyBeforeSecrets ==
    /\ \A n \in DOMAIN files : files[n].mode = "0600"
    /\ \A j \in JobIds :
        (HoldsFile(j) /\ files[jobs[j].conf].content # << >>) =>
            jobs[j].pc \in { "popen", "communicate" }

\* the keys are in the file while rclone runs
C14_Witness ==
    \E j \in JobIds :
        /\ At(j, "communicate")
        /\ jobs[j].proc = "running"
        /\ files[jobs[j].conf].mode = "0600"
        /\ files[jobs[j].conf].content =
                << Credential(j).access_key, Credential(j).secret_key,
                   Backup(j).region >>

\* C15: the temporary configuration file exists as long as rclone runs, and
\* it is deleted on every exit path of the tree sync: every temporary file
\* that exists is the file of a sync still inside its with block, so none is
\* left of a sync that returned, failed to start rclone or saw a non-zero
\* exit code.
C15_FileLivesWithProcess ==
    /\ \A j \in JobIds : jobs[j].proc = "running" =>
            (At(j, "communicate") /\ jobs[j].conf \in DOMAIN files)
    /\ \A n \in DOMAIN files :
            \E j \in JobIds : Running(j) /\ HoldsFile(j) /\ jobs[j].conf = n
    /\ \A j \in JobIds :
            (jobs[j].pc = "end" /\ jobs[j].conf \in DOMAIN files) =>
                \E k \in JobIds : k # j /\ HoldsFile(k) /\ jobs[k].conf = jobs[j].conf

\* one sync has ended on a non-zero exit code, another on a failed launch,
\* and no temporary file exists
C15_Witness ==
    \E i, k \in JobIds :
        /\ jobs[i].pc = "end" /\ jobs[i].proc = "exited" /\ jobs[i].returncode # 0
        /\ jobs[k].pc = "end" /\ jobs[k].error = << "OSError" >>
        /\ jobs[i].conf # 0 /\ jobs[k].conf # 0
        /\ files = << >>

\* C16: the scanner never outlives the sync that spawned it: once the tree
\* sync has returned or raised, its scanner is no longer running.
C16_ScannerEndsWithSync ==
    \A j \in JobIds : jobs[j].pc = "end" => jobs[j].scanner # "running"

\* C18: each sync invocation has a temporary configuration file of its own:
\* two syncs inside their with blocks never hold the same file, and the file
\* rclone is started with holds the keys and region of its own invocation.
C18_OwnConfigFile ==
    /\ \A i, k \in JobIds :
            (i # k /\ HoldsFile(i) /\ HoldsFile(k)) => jobs[i].conf # jobs[k].conf
    /\ \A j \in JobIds : jobs[j].proc = "running" =>
            /\ jobs[j].conf \in DOMAIN files
            /\ files[jobs[j].conf].content =
                    << Credential(j).access_key, Credential(j).secret_key,
                       Backup(j).region >>

\* two syncs with different configurations run rclone at the same time
C18_Witness ==
    \E i, k \in JobIds :
        /\ jobs[i].proc = "running" /\ jobs[k].proc = "running"
        /\ jobs[i].conf # jobs[k].conf
        /\ files[jobs[i].conf].content # files[jobs[k].conf].content


(***************************************************************************)
(* BackupS3Service.put and get, lines 126-190, against an object store.    *)
(***************************************************************************)
Bytes == { "a", "b" }

\* the longest source stream: two full chunks and one more byte
MaxStreamLen == 2 * CHUNK_SIZE + 1

Min(a, b) == IF a <= b THEN a ELSE b

\* lines 44-52: get_client(id) queries the credential of that id and builds
\* the client from its keys: <<access key>>, or <<>> when the query found no
\* record and credential['attributes'] raises TypeError
get_client(id) ==
    LET credential == datastore_query(system_cloudcredentials, id)
    IN  IF credential = << >> THEN << >> ELSE << credential[1].access_key >>

\* line 128 and line 176: client = self.get_client(backup['id'])
client_of(backup) == get_client(backup.id)

\* fg.read(n) at offset pos of a stream: the next n bytes, fewer only when
\* the stream ends first (a buffered reader fills the request), b'' at the end
fg_read_short(stream, pos, n) ==
    SubSeq(stream, pos + 1, Min(pos + Min(n, 1), Len(stream)))

fg_read(stream, pos, n) == SubSeq(stream, pos + 1, Min(pos + n, Len(stream)))

\* lines 147-154: the arguments of client.upload_part
upload_part_args(idx, chunk) ==
    [PartNumber |-> idx, ContentLength |-> CHUNK_SIZE, Body |-> chunk]

\* lines 156-159: parts.append({'ETag': resp['ETag'], 'PartNumber': idx})
parts_prepend(parts, etag, idx) ==
    << [ETag |-> etag, PartNumber |-> idx] >> \o parts

parts_append(parts, etag, idx) ==
    Append(parts, [ETag |-> etag, PartNumber |-> idx])

\* line 161: idx += 1
next_idx_skip(idx) == idx + 2

next_idx(idx) == idx + 1

\* lines 134 and 171-172: try ... finally: pass lets an exception of the loop
\* leave put; the loop is not resumed
after_raise_resume == "loop"

after_raise == "failed"

(***************************************************************************)
(* The object store as put and get use it.                                 *)
(***************************************************************************)
\* the tag the store returns for a part: a digest of the part's body
ETagOf(body) == << "md5", body >>

\* the store serves a bucket to the keys of the credential its task references
Authorized(backup, client) ==
    /\ backup.credential \in DOMAIN system_cloudcredentials
    /\ client = << system_cloudcredentials[backup.credential].access_key >>

\* the store completes a session for a part list that is in ascending part
\* number order without gaps and names uploaded parts with their tags
ValidParts(parts, uploads) ==
    \A i \in 1..Len(parts) :
        /\ parts[i].PartNumber = i
        /\ \E u \in 1..Len(uploads) :
            /\ uploads[u].ok
            /\ uploads[u].PartNumber = i
            /\ uploads[u].ETag = parts[i].ETag

BodyOfPart(n, uploads) ==
    LET u == CHOOSE u \in 1..Len(uploads) : uploads[u].ok /\ uploads[u].PartNumber = n
    IN  uploads[u].Body

RECURSIVE Assemble(_, _)
Assemble(parts, uploads) ==
    IF parts = << >> THEN << >>
    ELSE BodyOfPart(Head(parts).PartNumber, uploads) \o Assemble(Tail(parts), uploads)

XBackup == tasks_cloudsync[xfer.task]

PutEnded == put.pc \in { "done", "failed" }

GetEnded == get.pc \in { "done", "failed" }

\* the chunk line 143 reads next
NextChunk == fg_read(xfer.src, put.rpos, CHUNK_SIZE)

Uploaded(args, ok) ==
    [PartNumber |-> args.PartNumber, ContentLength |-> args.ContentLength,
     Body |-> args.Body, ok |-> ok,
     ETag |-> IF ok THEN ETagOf(args.Body) ELSE << >>]

(***************************************************************************)
(* put(backup, filename, read_fd)                                          *)
(***************************************************************************)
\* line 128: get_client finds no credential whose id is the task's id
PutNoCredential ==
    /\ put.pc = "start"
    /\ client_of(XBackup) = << >>
    /\ put' = [put EXCEPT !.pc = "failed", !.error = << "TypeError" >>]
    /\ UNCHANGED << syncVars, bytesIsStr, xfer, get, s3, fault, scan >>

\* lines 128-140: the store refuses create_multipart_upload to the client
PutCreateDenied ==
    /\ put.pc = "start"
    /\ client_of(XBackup) # << >>
    /\ ~Authorized(XBackup, client_of(XBackup))
    /\ put' = [put EXCEPT !.pc = "failed", !.client = client_of(XBackup),
                          !.error = << "ClientError", "create_multipart_upload" >>]
    /\ UNCHANGED << syncVars, bytesIsStr, xfer, get, s3, fault, scan >>

\* lines 128-140: the multipart session is opened
PutCreate ==
    /\ put.pc = "start"
    /\ client_of(XBackup) # << >>
    /\ Authorized(XBackup, client_of(XBackup))
    /\ put' = [put EXCEPT !.pc = "loop", !.client = client_of(XBackup)]
    /\ s3' = [s3 EXCEPT !.session = "open"]
    /\ UNCHANGED << syncVars, bytesIsStr, xfer, get, fault, scan >>

\* lines 143-161: a chunk is read and uploaded as the next part
PutUpload ==
    /\ put.pc = "loop"
    /\ NextChunk # << >>
    /\ LET call == Uploaded(upload_part_args(put.idx, NextChunk), TRUE)
       IN  /\ s3' = [s3 EXCEPT !.uploads = Append(@, call)]
           /\ put' = [put EXCEPT !.rpos = @ + Len(NextChunk),
                                 !.parts = parts_append(@, call.ETag, put.idx),
                                 !.idx = next_idx(@)]
    /\ UNCHANGED << syncVars, bytesIsStr, xfer, get, fault, scan >>

\* an upload_part call raised
PutRaise(call) ==
    /\ s3' = [s3 EXCEPT !.uploads = Append(@, call)]
    /\ put' = [put EXCEPT !.rpos = @ + Len(NextChunk),
                          !.pc = after_raise,
                          !.error = << "ClientError", "upload_part" >>]

\* lines 143-154: upload_part raises for a part whose declared ContentLength
\* is not the length of its Body.  What becomes of such a request is left to
\* the client library and the store, which may send and accept the body as
\* it is (PutUpload) or fail the request (this action).
PutUploadRejected ==
    /\ put.pc = "loop"
    /\ NextChunk # << >>
    /\ LET args == upload_part_args(put.idx, NextChunk)
       IN  /\ args.ContentLength # Len(args.Body)
           /\ PutRaise(Uploaded(args, FALSE))
    /\ UNCHANGED << syncVars, bytesIsStr, xfer, get, fault, scan >>

\* lines 143-154: upload_part fails because the store or the network fails
PutUploadFault ==
    /\ put.pc = "loop"
    /\ NextChunk # << >>
    /\ PutRaise(Uploaded(upload_part_args(put.idx, NextChunk), FALSE))
    /\ fault' = TRUE
    /\ UNCHANGED << syncVars, bytesIsStr, xfer, get, scan >>

\* lines 143-145: the read returns b'' and the loop is left
PutEOF ==
    /\ put.pc = "loop"
    /\ NextChunk = << >>
    /\ put' = [put EXCEPT !.pc = "complete", !.eof = TRUE]
    /\ UNCHANGED << syncVars, bytesIsStr, xfer, get, s3, fault, scan >>

\* lines 163-170: complete_multipart_upload with the parts collected
PutComplete ==
    /\ put.pc = "complete"
    /\ IF ValidParts(put.parts, s3.uploads)
       THEN /\ s3' = [s3 EXCEPT !.completes = Append(@, put.parts),
                                !.session = "completed",
                                !.object = << Assemble(put.parts, s3.uploads) >>]
            /\ put' = [put EXCEPT !.pc = "done"]
       ELSE /\ s3' = [s3 EXCEPT !.completes = Append(@, put.parts)]
            /\ put' = [put EXCEPT !.pc = "failed",
                          !.error = << "ClientError", "complete_multipart_upload" >>]
    /\ UNCHANGED << syncVars, bytesIsStr, xfer, get, fault, scan >>

(***************************************************************************)
(* get(backup, filename, write_fd), called once put has ended              *)
(***************************************************************************)
\* line 176: get_client finds no credential whose id is the task's id
GetNoCredential ==
    /\ PutEnded /\ get.pc = "idle"
    /\ client_of(XBackup) = << >>
    /\ get' = [get EXCEPT !.pc = "failed", !.error = << "TypeError" >>]
    /\ UNCHANGED << syncVars, bytesIsStr, xfer, put, s3, fault, scan >>

\* lines 176-182: get_object raises: the key holds no object, or the store
\* refuses the client
GetObjectFail ==
    /\ PutEnded /\ get.pc = "idle"
    /\ client_of(XBackup) # << >>
    /\ ~Authorized(XBackup, client_of(XBackup)) \/ s3.object = << >>
    /\ get' = [get EXCEPT !.pc = "failed", !.client = client_of(XBackup),
                          !.error = << "ClientError", "get_object" >>]
    /\ UNCHANGED << syncVars, bytesIsStr, xfer, put, s3, fault, scan >>

\* lines 176-182: get_object returns the object
GetObject ==
    /\ PutEnded /\ get.pc = "idle"
    /\ client_of(XBackup) # << >>
    /\ Authorized(XBackup, client_of(XBackup))
    /\ s3.object # << >>
    /\ get' = [get EXCEPT !.pc = "loop", !.client = client_of(XBackup)]
    /\ UNCHANGED << syncVars, bytesIsStr, xfer, put, s3, fault, scan >>

\* a loop body that writes the chunk it read twice
GetChunk_Twice ==
    /\ get.pc = "loop"
    /\ \E n \in 1..CHUNK_SIZE :
        /\ get.gpos + n <= Len(s3.object[1])
        /\ LET chunk == SubSeq(s3.object[1], get.gpos + 1, get.gpos + n)
           IN  get' = [get EXCEPT !.gpos = @ + n, !.dst = @ \o chunk \o chunk]
    /\ UNCHANGED << syncVars, bytesIsStr, xfer, put, s3, fault, scan >>

\* lines 187-190: the body yields a chunk of at most CHUNK_SIZE bytes, which
\* is written to the destination
GetChunk ==
    /\ get.pc = "loop"
    /\ \E n \in 1..CHUNK_SIZE :
        /\ get.gpos + n <= Len(s3.object[1])
        /\ get' = [get EXCEPT !.gpos = @ + n,
                       !.dst = @ \o SubSeq(s3.object[1], get.gpos + 1, get.gpos + n)]
    /\ UNCHANGED << syncVars, bytesIsStr, xfer, put, s3, fault, scan >>

\* line 187: reading the body fails because the store or the network fails
GetReadFault ==
    /\ get.pc = "loop"
    /\ get.gpos < Len(s3.object[1])
    /\ get' = [get EXCEPT !.pc = "failed", !.error = << "ClientError", "read" >>]
    /\ fault' = TRUE
    /\ UNCHANGED << syncVars, bytesIsStr, xfer, put, s3, scan >>

\* lines 187-189: the read returns b'' and the loop is left
GetEOF ==
    /\ get.pc = "loop"
    /\ get.gpos = Len(s3.object[1])
    /\ get' = [get EXCEPT !.pc = "done"]
    /\ UNCHANGED << syncVars, bytesIsStr, xfer, put, s3, fault, scan >>

\* put is called for some task with some source stream
InitTransfer ==
    /\ SyncIdle
    /\ ScanIdle
    /\ bytesIsStr \in BOOLEAN
    /\ xfer \in [task : DOMAIN tasks_cloudsync, src : SeqsUpTo(Bytes, MaxStreamLen)]
    /\ put = [pc |-> "start", client |-> << >>, rpos |-> 0, idx |-> 1,
              parts |-> << >>, eof |-> FALSE, error |-> NoError]
    /\ get = [pc |-> "idle", client |-> << >>, gpos |-> 0, dst |-> << >>,
              error |-> NoError]
    /\ s3 = [session |-> "none", uploads |-> << >>, completes |-> << >>,
             object |-> << >>]
    /\ fault = FALSE

NextTransfer ==
    \/ PutNoCredential
    \/ PutCreateDenied
    \/ PutCreate
    \/ PutUpload
    \/ PutUploadRejected
    \/ PutUploadFault
    \/ PutEOF
    \/ PutComplete
    \/ GetNoCredential
    \/ GetObjectFail
    \/ GetObject
    \/ GetChunk
    \/ GetReadFault
    \/ GetEOF

SpecTransfer == InitTransfer /\ [][NextTransfer]_vars

\* put and get are sequential code that keeps running: a step that can be
\* taken is taken
SpecTransferFair == SpecTransfer /\ WF_vars(NextTransfer)


(***************************************************************************)
(* Properties of put and get.                                              *)
(***************************************************************************)
Ceil(l, c) == (l + c - 1) \div c

\* the length of the i-th chunk of a stream of l bytes cut every c bytes
ChunkLen(i, l, c) == IF i * c <= l THEN c ELSE l - (i - 1) * c

\* C2: put makes ceil(L/C) upload_part calls for a stream of L bytes it
\* reads to the end, the last chunk is L mod C bytes long (C when that is
\* 0), and the part numbers of the calls are 1..n, one by one.
C2_ChunkCount ==
    LET calls == s3.uploads
        L == Len(xfer.src)
    IN  /\ \A i \in 1..Len(calls) :
            /\ calls[i].PartNumber = i
            /\ Len(calls[i].Body) = ChunkLen(i, L, CHUNK_SIZE)
            /\ calls[i].Body = SubSeq(xfer.src, (i - 1) * CHUNK_SIZE + 1,
                                      (i - 1) * CHUNK_SIZE + Len(calls[i].Body))
        /\ put.rpos = L =>
            /\ Len(calls) = Ceil(L, CHUNK_SIZE)
            /\ calls # << >> =>
                Len(calls[Len(calls)].Body) =
                    (IF L % CHUNK_SIZE = 0 THEN CHUNK_SIZE ELSE L % CHUNK_SIZE)

C2_Witness ==
    /\ put.pc = "done"
    /\ Len(xfer.src) = 2 * CHUNK_SIZE + 1
    /\ Len(s3.uploads) = 3
    /\ Len(s3.uploads[3].Body) = 1

\* C3: a put without failure calls complete_multipart_upload exactly once,
\* after the zero-length read and after every upload_part returned, with
\* every uploaded part once, in ascending part number order, each with the
\* ETag upload_part returned for it.
C3_CompleteOnceInOrder ==
    /\ Len(s3.completes) <= 1
    /\ put.pc = "done" => Len(s3.completes) = 1
    /\ s3.completes # << >> =>
        /\ put.eof
        /\ put.pc = "done"
        /\ put.rpos = Len(xfer.src)
        /\ Len(s3.completes[1]) = Len(s3.uploads)
        /\ \A i \in 1..Len(s3.uploads) :
            /\ s3.uploads[i].ok
            /\ s3.completes[1][i].PartNumber = i
            /\ s3.uploads[i].PartNumber = i
            /\ s3.completes[1][i].ETag = s3.uploads[i].ETag

C3_Witness ==
    /\ put.pc = "done"
    /\ Len(s3.completes) = 1
    /\ Len(s3.completes[1]) = 3
    /\ s3.uploads[1].Body # s3.uploads[2].Body

\* C4: put of a source stream of 0, 1, C or 2C+1 bytes followed by get of
\* the same file under the same task writes exactly the source's bytes to
\* the destination.  Stated for the runs in which neither the store nor the
\* network fails on its own and for the tasks whose bucket the client of put
\* and get is served.
C4_RoundTrip ==
    ( /\ Len(xfer.src) \in { 0, 1, CHUNK_SIZE, 2 * CHUNK_SIZE + 1 }
      /\ Authorized(XBackup, client_of(XBackup))
      /\ ~fault
      /\ PutEnded /\ GetEnded )
    => (put.pc = "done" /\ get.pc = "done" /\ get.dst = xfer.src)

\* C9: when an upload_part call fails the failure leaves put, no further
\* chunk is read or uploaded, and complete_multipart_upload is never called:
\* the session stays open.
C9_UploadFailurePropagates ==
    (\E i \in 1..Len(s3.uploads) : ~s3.uploads[i].ok) =>
        /\ put.pc = "failed"
        /\ put.error = << "ClientError", "upload_part" >>
        /\ ~s3.uploads[Len(s3.uploads)].ok
        /\ \A i \in 1..(Len(s3.uploads) - 1) : s3.uploads[i].ok
        /\ put.rpos = Min(Len(s3.uploads) * CHUNK_SIZE, Len(xfer.src))
        /\ ~put.eof
        /\ s3.completes = << >>
        /\ s3.session = "open"
        /\ s3.object = << >>

C9_Witness ==
    /\ put.pc = "failed"
    /\ Len(s3.uploads) = 2
    /\ ~s3.uploads[2].ok
    /\ put.rpos < Len(xfer.src)
    /\ GetEnded

\* C17: get terminates for every finite object and writes to the
\* destination exactly the chunks it read from the body, in read order:
\* what is written is always what has been read so far, a get that reaches
\* the zero-length read has written the whole object, nothing is written
\* after get ended, and a get that entered its loop ends.
C17_GetWritesWhatItReads ==
    /\ [](get.pc \in { "loop", "done" } =>
            get.dst = SubSeq(s3.object[1], 1, get.gpos))
    /\ [](get.pc = "done" => get.dst = s3.object[1])
    /\ [][GetEnded => get'.dst = get.dst]_vars
    /\ (get.pc = "loop" ~> GetEnded)

\* get has written an object of two chunks and a byte and ended
C17_Witness ==
    /\ get.pc = "done"
    /\ Len(s3.object[1]) = 2 * CHUNK_SIZE + 1
    /\ get.dst = s3.object[1]

\* C19: every upload_part call of put declares as ContentLength the length
\* of the chunk it passes as Body, a final short chunk included.
C19_ContentLengthIsBodyLength ==
    \A i \in 1..Len(s3.uploads) :
        s3.uploads[i].ContentLength = Len(s3.uploads[i].Body)

\* C20: the client put and get authenticate with is built from the
\* credential the task references, also for a task whose id differs from
\* its credential's id.
C20_ClientFromTaskCredential ==
    LET referenced == get_client(XBackup.credential)
    IN  /\ put.client # << >> => put.client = referenced
        /\ get.client # << >> => get.client = referenced


(***************************************************************************)
(* One iteration of check_progress, lines 106-113, on every line.          *)
(***************************************************************************)
\* the scanner's readline returned some non-empty line
InitScan ==
    /\ SyncIdle
    /\ XferIdle
    /\ bytesIsStr \in BOOLEAN
    /\ scan \in [line : AllLines, raised : {FALSE}, publish : {<< >>}, pc : {"read"}]

\* lines 109-113: the pattern is searched in the line and the value published
ScanApply ==
    /\ scan.pc = "read"
    /\ LET r == check_progress_line(bytesIsStr, scan.line)
       IN  scan' = [scan EXCEPT !.raised = r.raised, !.publish = r.publish,
                                !.pc = IF r.raised THEN "crashed" ELSE "next"]
    /\ UNCHANGED << syncVars, bytesIsStr, xferVars >>

NextScan == ScanApply

SpecScan == InitScan /\ [][NextScan]_vars

\* C8: a scanned line publishes a progress message exactly when it matches
\* "Transferred: <value>" and the value is not purely numeric, and the
\* message is that value.
C8_PublishedIffNonNumeric ==
    scan.pc # "read" =>
        /\ scan.publish # << >> <=>
            (HasTransferred(scan.line) /\ ~PurelyNumeric(TransferredValue(scan.line)))
        /\ scan.publish # << >> =>
            scan.publish = << [percent |-> "None",
                               message |-> TransferredValue(scan.line)] >>

====
